---- MODULE Spec2Model ----
(***************************************************************************)
(* Model of the Arena third-person character controller: the input        *)
(* handler (input.js), the pointer-lock state (events part of camera.js), *)
(* the physics integration layer (physics.js, latest revision) and the    *)
(* animation loop (main.js).                                               *)
(*                                                                         *)
(* Numbers are fixed point.  Directions and cos/sin values are in         *)
(* thousandths (DirScale).  Velocities are in 1/VelScale world units per  *)
(* second, positions in 1/PosScale world units, angles in milliradians,   *)
(* times in physics steps of 1/StepsPerSecond seconds, so that one         *)
(* integration step adds the velocity to the position exactly.            *)
(***************************************************************************)
EXTENDS Integers, Sequences, FiniteSets, TLC

(* ----------------------------- bounds --------------------------------- *)
\* Frames of the animation loop that are explored.
MaxTicks == 3
\* Input events (keys, mouse, pointer lock, GUI) that are explored.
MaxEvents == 3
\* Largest camera yaw explored, in quarter turns of mouse travel.
MaxTurns == 1

\* The time between two frames, in sixtieths of a second: a 60 Hz and a
\* 30 Hz display.
FrameTimes == {1, 2}

(* ------------------------- fixed-point scales ------------------------- *)
DirScale == 1000
StepsPerSecond == 60
VelScale == DirScale * DirScale
PosScale == VelScale * StepsPerSecond

Abs(n) == IF n < 0 THEN -n ELSE n
Sign(n) == IF n < 0 THEN -1 ELSE IF n > 0 THEN 1 ELSE 0
Min2(a, b) == IF a <= b THEN a ELSE b
Max2(a, b) == IF a >= b THEN a ELSE b

Vec3(x, y, z) == [x |-> x, y |-> y, z |-> z]
Zero3 == Vec3(0, 0, 0)
ZeroDir == [x |-> 0, z |-> 0]

(* ------------------------------ input.js ------------------------------ *)
\* this.sensitivity = 0.002 rad per pixel, in milliradians
SENSITIVITY == 2
\* Math.PI / 2 in milliradians
PI_HALF == 1571
\* the 0.1 rad margin of the vertical look limit
LOOK_MARGIN == 100

\* the keys that are pressed, as event.key reports them
RawKeys == {"w", "W", "d", " "}

\* String.prototype.toLowerCase on the values of event.key that are delivered
toLowerCase(k) ==
  CASE k = "W" -> "w"
    [] k = "A" -> "a"
    [] k = "S" -> "s"
    [] k = "D" -> "d"
    [] OTHER -> k

InitKeys ==
  [forward |-> FALSE, backward |-> FALSE, left |-> FALSE, right |-> FALSE,
   jump |-> FALSE]

\* variant: the key is compared as it is reported, upper case included
onKeyDown_CaseSensitive(ks, key) ==
  CASE key = "w" -> [ks EXCEPT !.forward = TRUE]
    [] key = "a" -> [ks EXCEPT !.left = TRUE]
    [] key = "s" -> [ks EXCEPT !.backward = TRUE]
    [] key = "d" -> [ks EXCEPT !.right = TRUE]
    [] key = " " -> [ks EXCEPT !.jump = TRUE]
    [] OTHER -> ks

\* InputHandler.onKeyDown: the flag the key maps to becomes true
onKeyDown(ks, key) ==
  LET k == toLowerCase(key) IN
  CASE k = "w" -> [ks EXCEPT !.forward = TRUE]
    [] k = "a" -> [ks EXCEPT !.left = TRUE]
    [] k = "s" -> [ks EXCEPT !.backward = TRUE]
    [] k = "d" -> [ks EXCEPT !.right = TRUE]
    [] k = " " -> [ks EXCEPT !.jump = TRUE]
    [] OTHER -> ks

\* InputHandler.onKeyUp: the flag the key maps to becomes false
onKeyUp(ks, key) ==
  LET k == toLowerCase(key) IN
  CASE k = "w" -> [ks EXCEPT !.forward = FALSE]
    [] k = "a" -> [ks EXCEPT !.left = FALSE]
    [] k = "s" -> [ks EXCEPT !.backward = FALSE]
    [] k = "d" -> [ks EXCEPT !.right = FALSE]
    [] k = " " -> [ks EXCEPT !.jump = FALSE]
    [] OTHER -> ks

\* variant: the vertical look value is accumulated without a limit
onMouseMove_Unclamped(mm, lockElement, movementX, movementY) ==
  IF lockElement
    THEN [x |-> mm.x + movementX * SENSITIVITY,
          y |-> mm.y + movementY * SENSITIVITY]
    ELSE mm

\* variant: the mouse is tracked whether or not the pointer is locked
onMouseMove_Always(mm, lockElement, movementX, movementY) ==
  [x |-> mm.x + movementX * SENSITIVITY,
   y |-> Max2(Min2(mm.y + movementY * SENSITIVITY, PI_HALF - LOOK_MARGIN),
              -PI_HALF + LOOK_MARGIN)]

\* InputHandler.onMouseMove: accumulate only under pointer lock, clamp pitch
onMouseMove(mm, lockElement, movementX, movementY) ==
  IF lockElement
    THEN [x |-> mm.x + movementX * SENSITIVITY,
          y |-> Max2(Min2(mm.y + movementY * SENSITIVITY, PI_HALF - LOOK_MARGIN),
                     -PI_HALF + LOOK_MARGIN)]
    ELSE mm

\* variant: of two opposite keys the positive one wins
getMovementDirection_NoCancel(ks) ==
  [x |-> (IF ks.right THEN 1 ELSE IF ks.left THEN -1 ELSE 0) * DirScale,
   z |-> (IF ks.backward THEN 1 ELSE IF ks.forward THEN -1 ELSE 0) * DirScale]

\* InputHandler.getMovementDirection, in thousandths
getMovementDirection(ks) ==
  [x |-> ((IF ks.right THEN 1 ELSE 0) - (IF ks.left THEN 1 ELSE 0)) * DirScale,
   z |-> ((IF ks.backward THEN 1 ELSE 0) - (IF ks.forward THEN 1 ELSE 0)) * DirScale]

\* InputHandler.getPlayerRotation
getPlayerRotation(mm) == [x |-> -mm.y, y |-> mm.x]

\* InputHandler.isJumpPressed
isJumpPressed(ks) == ks.jump

\* InputHandler.resetJump
resetJump(ks) == [ks EXCEPT !.jump = FALSE]

(* ----------------------- physics.js: constants ------------------------ *)
\* const MOVE_SPEED = 2.0, in world units per second
MOVE_SPEED == 2
\* const JUMP_FORCE = 5.0, the impulse of a jump
JUMP_FORCE == 5
\* const GROUND_DETECTION_DISTANCE = 0.1, in position units
GROUND_DETECTION_DISTANCE == PosScale \div 10
\* const PLAYER_RADIUS = 0.5 and PLAYER_HALF_HEIGHT = 1, in position units
PLAYER_RADIUS == PosScale \div 2
PLAYER_HALF_HEIGHT == 1 * PosScale
\* createGroundCollider: cuboid(groundSize / 2, 0.1, groundSize / 2)
GROUND_HALF_SIZE == 25 * PosScale
GROUND_HALF_HEIGHT == PosScale \div 10
\* gravity.y = -9.81: the velocity a body gains per step of 1/60 s
GravityStep == (981 * VelScale) \div (100 * StepsPerSecond)
\* the time one world.step() advances: the engine's own fixed step of 1/60 s
\* (world.step() is called without arguments), in steps
TIMESTEP == 1
\* mass of the player's capsule at the engine's default density 1, in
\* thousandths: pi r^2 (2 h) + 4/3 pi r^3 with r = 0.5, h = 1
PlayerMassMilli == 2094
\* velocity change of the jump impulse: JUMP_FORCE / mass
JumpDeltaV == ((JUMP_FORCE * VelScale) \div PlayerMassMilli) * 1000
\* playerGroup.position.y = 5 (player.js) and resetPlayer's (0, 5, 0)
PLAYER_START_Y == 5
\* the elevations the ground's GUI slider is moved to (range -3 .. 3)
GroundElevations == {0, -1}

\* THREE.Quaternion default and the rotation of a body that never rotates
IdentityQuat == <<0, 0, 0, 1>>

NoId == [kind |-> "null", t |-> 0]
DebugId(kind, t) == [kind |-> kind, t |-> t]

\* cos and sin of the camera angles the model reaches (milliradians in,
\* thousandths out, rounded to nearest)
Cos(a) ==
  CASE a = 0 -> 1000
    [] Abs(a) = 1570 -> 1
    [] Abs(a) = 3140 -> -1000
    [] Abs(a) = 4710 -> -2
    [] Abs(a) = 529 -> 863
    [] Abs(a) = 1471 -> 100

Sin(a) ==
  Sign(a) * (CASE a = 0 -> 0
               [] Abs(a) = 1570 -> 1000
               [] Abs(a) = 3140 -> 2
               [] Abs(a) = 4710 -> -1000
               [] Abs(a) = 529 -> 505
               [] Abs(a) = 1471 -> 995)

(* ------------------------ physics.js: helpers ------------------------- *)
\* one entry of the call log of an updatePhysics call: the operation, the
\* object it acted on, the direction argument, and the player body after it
Entry(P, op, who, dir) ==
  [op |-> op, who |-> who, dir |-> dir,
   linvel |-> P.playerBody.linvel, translation |-> P.playerBody.translation]

Logged(P, op, who, dir) == [P EXCEPT !.log = Append(@, Entry(P, op, who, dir))]

\* getPlayerPhysics: index of the first object of type "player", 0 for null
getPlayerPhysics(P) ==
  LET idx == {i \in 1..Len(P.physicsObjects) : P.physicsObjects[i].type = "player"}
  IN IF idx = {} THEN 0 ELSE CHOOSE i \in idx : \A j \in idx : i <= j

\* variant: the input direction is handed on without the camera rotation
rotateDirectionWithCamera_Unrotated(direction, cameraRotation) ==
  [x |-> direction.x * DirScale, z |-> direction.z * DirScale]

\* rotateDirectionWithCamera: a zero direction is returned as it is, any
\* other is rotated by cameraRotation.y (products of thousandths)
rotateDirectionWithCamera(direction, cameraRotation) ==
  IF direction.x = 0 /\ direction.z = 0
    THEN direction
    ELSE [x |-> direction.x * Cos(cameraRotation.y) - direction.z * Sin(cameraRotation.y),
          z |-> direction.x * Sin(cameraRotation.y) + direction.z * Cos(cameraRotation.y)]

\* variant: the mesh keeps the yaw it had
updatePlayerRotation_Keeps(P, cameraRotation) ==
  Logged(P, "updatePlayerRotation", "player", ZeroDir)

\* updatePlayerRotation: the mesh's yaw becomes the camera's yaw
updatePlayerRotation(P, cameraRotation) ==
  Logged([P EXCEPT !.playerMesh.rotationY = cameraRotation.y],
         "updatePlayerRotation", "player", ZeroDir)

\* variant: the new velocity is built without the old vertical component
movePlayer_DropsVertical(P, direction, deltaTime) ==
  Logged([P EXCEPT !.playerBody.linvel =
                     Vec3(direction.x * MOVE_SPEED, 0, direction.z * MOVE_SPEED)],
         "movePlayer", "player", direction)

\* movePlayer: setLinvel(direction * MOVE_SPEED horizontally, old y);
\* moveDistance = MOVE_SPEED * deltaTime is computed and never used
movePlayer(P, direction, deltaTime) ==
  LET moveDistance == MOVE_SPEED * deltaTime
      velocity == P.playerBody.linvel
  IN Logged([P EXCEPT !.playerBody.linvel =
                        Vec3(direction.x * MOVE_SPEED, velocity.y,
                             direction.z * MOVE_SPEED)],
            "movePlayer", "player", direction)

\* playerJump: applyImpulse({0, JUMP_FORCE, 0})
playerJump(P) ==
  Logged([P EXCEPT !.playerBody.linvel.y = @ + JumpDeltaV],
         "playerJump", "player", ZeroDir)

\* the colliders of the world as a vertical ray sees them: centre and half
\* extents (the capsule is exact for rays along its axis)
Colliders(P) ==
  {[who |-> "ground",
    centre |-> Vec3(P.groundBody.translation.x + P.groundCollider.x,
                    P.groundBody.translation.y + P.groundCollider.y,
                    P.groundBody.translation.z + P.groundCollider.z),
    hx |-> GROUND_HALF_SIZE, hy |-> GROUND_HALF_HEIGHT, hz |-> GROUND_HALF_SIZE]
     : i \in {j \in 1..Len(P.physicsObjects) : P.physicsObjects[j].type = "ground"}}
  \cup
  {[who |-> "player", centre |-> P.playerBody.translation,
    hx |-> PLAYER_RADIUS, hy |-> PLAYER_HALF_HEIGHT + PLAYER_RADIUS,
    hz |-> PLAYER_RADIUS]
     : i \in {j \in 1..Len(P.physicsObjects) : P.physicsObjects[j].type = "player"}}

\* time of impact of a ray cast straight down from origin with a collider;
\* -1 when the ray misses.  A solid cast from inside a shape hits at 0.
RayToi(origin, c, solid) ==
  IF Abs(origin.x - c.centre.x) <= c.hx /\ Abs(origin.z - c.centre.z) <= c.hz
    THEN IF Abs(origin.y - c.centre.y) <= c.hy
           THEN (IF solid THEN 0 ELSE origin.y - (c.centre.y - c.hy))
           ELSE IF origin.y > c.centre.y + c.hy
                  THEN origin.y - (c.centre.y + c.hy)
                  ELSE -1
    ELSE -1

\* world.castRay(ray, maxToi, solid) for a ray straight down: the nearest
\* collider within maxToi, no collider excluded; hit = FALSE for null.  The
\* query sees the colliders where the last world.step() left them.
castRay(P, origin, maxToi, solid) ==
  LET tois == {RayToi(origin, c, solid) : c \in P.queryPipeline}
      near == {t \in tois : t >= 0 /\ t <= maxToi}
  IN IF near = {} THEN [hit |-> FALSE, toi |-> 0]
     ELSE [hit |-> TRUE, toi |-> CHOOSE t \in near : \A u \in near : t <= u]

\* isPlayerOnGround: ray from the body translation, straight down
isPlayerOnGround(P) ==
  LET position == P.playerBody.translation
      hit == castRay(P, position, GROUND_DETECTION_DISTANCE, TRUE)
  IN P.world /\ hit.hit /\ hit.toi <= GROUND_DETECTION_DISTANCE

\* the player's capsule rests on the ground cuboid or is within the
\* detection distance above it (what "on the ground" means physically)
RestsOnGround(P) ==
  \E c \in Colliders(P) :
     /\ c.who = "ground"
     /\ Abs(P.playerBody.translation.x - c.centre.x) <= c.hx
     /\ Abs(P.playerBody.translation.z - c.centre.z) <= c.hz
     /\ LET gap == (P.playerBody.translation.y - PLAYER_HALF_HEIGHT - PLAYER_RADIUS)
                   - (c.centre.y + c.hy)
        IN gap >= 0 /\ gap <= GROUND_DETECTION_DISTANCE

(* ---------------------- physics.js: world.step ------------------------ *)
\* world.step(): one step of the engine's fixed length TIMESTEP.  Gravity
\* changes the velocity, the velocity moves the body, and the ground cuboid
\* stops a capsule that would sink into it.
worldStep(P) ==
  IF getPlayerPhysics(P) = 0
    THEN Logged([P EXCEPT !.steps = @ + 1, !.queryPipeline = Colliders(P)],
                "step", "world", ZeroDir)
    ELSE
      LET b == P.playerBody
          vy == b.linvel.y - GravityStep * TIMESTEP
          nx == b.translation.x + b.linvel.x * TIMESTEP
          ny == b.translation.y + vy * TIMESTEP
          nz == b.translation.z + b.linvel.z * TIMESTEP
          feet == PLAYER_HALF_HEIGHT + PLAYER_RADIUS
          tops == {c.centre.y + c.hy : c \in
                     {g \in Colliders(P) :
                        /\ g.who = "ground"
                        /\ Abs(nx - g.centre.x) <= g.hx
                        /\ Abs(nz - g.centre.z) <= g.hz
                        /\ b.translation.y - feet >= g.centre.y + g.hy
                        /\ ny - feet < g.centre.y + g.hy}}
          landed == tops # {}
          top == IF landed THEN CHOOSE t \in tops : \A u \in tops : t >= u ELSE 0
          after == [P EXCEPT !.steps = @ + 1,
                             !.playerBody.linvel.y = IF landed THEN 0 ELSE vy,
                             !.playerBody.translation =
                                Vec3(nx, IF landed THEN top + feet ELSE ny, nz)]
      IN Logged([after EXCEPT !.queryPipeline = Colliders(after)],
                "step", "world", ZeroDir)

\* variant: the debug mesh is left where it was
updateDebugMesh_Stale(mesh, body) == mesh

\* updateDebugMesh: the debug mesh takes the body's position and rotation
updateDebugMesh(mesh, body) ==
  [position |-> body.translation, quaternion |-> body.rotation]

\* the body of the i-th physics object
BodyOf(P, i) ==
  IF P.physicsObjects[i].type = "player" THEN P.playerBody ELSE P.groundBody

\* the debug-mesh part of the sync loop for object i
syncDebug(P, i) ==
  LET obj == P.physicsObjects[i] IN
  IF obj.debugId # NoId /\ obj.debugId \in DOMAIN P.debugMeshes
    THEN Logged([P EXCEPT !.debugMeshes[obj.debugId] =
                            updateDebugMesh(@, BodyOf(P, i))],
                "updateDebugMesh", obj.type, ZeroDir)
    ELSE P

\* variant: the loop reads back the body of every object, the ground's too
syncObject_GroundToo(P, i) ==
  LET obj == P.physicsObjects[i] IN
  IF obj.type = "player"
    THEN syncDebug(Logged([P EXCEPT !.playerMesh.position = P.playerBody.translation],
                          "syncMesh", "player", ZeroDir), i)
    ELSE syncDebug(Logged([P EXCEPT !.groundMesh.position = P.groundBody.translation],
                          "syncMesh", "ground", ZeroDir), i)

\* one iteration of "for (const obj of physicsObjects)"
syncObject(P, i) ==
  LET obj == P.physicsObjects[i] IN
  IF obj.type = "player"
    THEN syncDebug(Logged([P EXCEPT !.playerMesh.position = P.playerBody.translation],
                          "syncMesh", "player", ZeroDir), i)
    ELSE IF obj.type = "ground" THEN syncDebug(P, i) ELSE P

RECURSIVE syncObjects(_, _)
syncObjects(P, i) ==
  IF i > Len(P.physicsObjects) THEN P ELSE syncObjects(syncObject(P, i), i + 1)

\* the "if (playerPhysics)" block of updatePhysics
processPlayer(P, deltaTime, inputDirection, jumpRequested, cameraRotation) ==
  LET rotatedDirection == rotateDirectionWithCamera(inputDirection, cameraRotation)
      moved == movePlayer(P, rotatedDirection, deltaTime)
      jumped == IF jumpRequested /\ isPlayerOnGround(moved)
                  THEN playerJump(moved) ELSE moved
  IN updatePlayerRotation(jumped, cameraRotation)

\* variant: the world is stepped before the player's input is applied
updatePhysics_StepFirst(P, deltaTime, inputDirection, jumpRequested, cameraRotation) ==
  LET called == [P EXCEPT !.calls = @ + 1, !.log = <<>>,
                          !.call = [deltaTime |-> deltaTime,
                                    inputDirection |-> inputDirection,
                                    jumpRequested |-> jumpRequested,
                                    cameraRotation |-> cameraRotation,
                                    restsOnGround |-> RestsOnGround(P)]]
  IN IF ~P.world THEN called
     ELSE LET stepped == worldStep([called EXCEPT !.deltaSum = @ + deltaTime])
              processed == IF getPlayerPhysics(stepped) # 0
                             THEN processPlayer(stepped, deltaTime, inputDirection,
                                                jumpRequested, cameraRotation)
                             ELSE stepped
          IN syncObjects(processed, 1)

\* updatePhysics(deltaTime, inputDirection, jumpRequested, cameraRotation)
updatePhysics(P, deltaTime, inputDirection, jumpRequested, cameraRotation) ==
  LET called == [P EXCEPT !.calls = @ + 1, !.log = <<>>,
                          !.call = [deltaTime |-> deltaTime,
                                    inputDirection |-> inputDirection,
                                    jumpRequested |-> jumpRequested,
                                    cameraRotation |-> cameraRotation,
                                    restsOnGround |-> RestsOnGround(P)]]
  IN IF ~P.world THEN called
     ELSE LET processed == IF getPlayerPhysics(called) # 0
                             THEN processPlayer(called, deltaTime, inputDirection,
                                                jumpRequested, cameraRotation)
                             ELSE called
          IN syncObjects(worldStep([processed EXCEPT !.deltaSum = @ + deltaTime]), 1)

\* createGroundCollider(groundMesh): a fixed body at the origin, a cuboid
\* collider at the mesh position, a debug mesh stored under a key that is
\* built from a second reading of the clock (later by `late` ms)
createGroundCollider(P, late) ==
  IF ~P.world THEN P
  ELSE LET debugMesh == P.scene
           objId == IF debugMesh THEN DebugId("ground", 0) ELSE NoId
           key == DebugId("ground", late)
       IN [P EXCEPT !.groundBody = [translation |-> Zero3, rotation |-> IdentityQuat],
                    !.groundCollider = P.groundMesh.position,
                    !.physicsObjects = Append(@, [type |-> "ground", debugId |-> objId]),
                    !.debugMeshes =
                       IF debugMesh
                         THEN [k \in DOMAIN @ \cup {key} |->
                                 IF k = key
                                   THEN [position |-> Zero3, quaternion |-> IdentityQuat]
                                   ELSE @[k]]
                         ELSE @]

\* createPlayerCollider(playerGroup, gui): a dynamic body at the group's
\* position with locked rotations, a capsule collider, a debug mesh
createPlayerCollider(P, now) ==
  IF ~P.world THEN P
  ELSE LET debugMesh == P.scene
           debugId == IF debugMesh THEN DebugId("player", now) ELSE NoId
       IN [P EXCEPT !.playerBody = [translation |-> P.playerMesh.position,
                                    linvel |-> Zero3, rotation |-> IdentityQuat],
                    !.physicsObjects = Append(@, [type |-> "player", debugId |-> debugId]),
                    !.debugMeshes =
                       IF debugMesh
                         THEN [k \in DOMAIN @ \cup {debugId} |->
                                 IF k = debugId
                                   THEN [position |-> Zero3, quaternion |-> IdentityQuat]
                                   ELSE @[k]]
                         ELSE @]

\* setPlayerPosition(playerBody, x, y, z)
setPlayerPosition(P, x, y, z) ==
  IF getPlayerPhysics(P) = 0 THEN P
  ELSE [P EXCEPT !.playerBody.translation = Vec3(x, y, z)]

(* ------------------------- camera.js, player.js ----------------------- *)
\* updateThirdPersonCamera: cameraDistance = 4 behind the player's yaw,
\* raised by cameraHeight = 2 and the pitch; looks at the player + 0.5
updateThirdPersonCamera(player, cameraRotation) ==
  LET cameraDistance == 4
      cameraHeight == 2
      playerAngle == player.rotationY
      cameraPhi == cameraRotation.x
      x == -Sin(playerAngle) * Cos(cameraPhi) * cameraDistance * StepsPerSecond
      y == Sin(cameraPhi) * cameraDistance * DirScale * StepsPerSecond
             + cameraHeight * PosScale
      z == -Cos(playerAngle) * Cos(cameraPhi) * cameraDistance * StepsPerSecond
  IN [position |-> Vec3(player.position.x + x, player.position.y + y,
                        player.position.z + z),
      lookAt |-> Vec3(player.position.x, player.position.y + PosScale \div 2,
                      player.position.z)]

\* updatePlayerAnimations: nothing happens without a mixer (main.js creates
\* the player with createPlayer, which sets none); otherwise Walk or Idle
updatePlayerAnimations(an, deltaTime, movementInput) ==
  IF ~an.mixer THEN an
  ELSE LET isMoving == Abs(movementInput.x) > DirScale \div 10
                         \/ Abs(movementInput.z) > DirScale \div 10
       IN [an EXCEPT !.currentAction = IF isMoving THEN "Walk" ELSE "Idle"]

(* ------------------------------ main.js ------------------------------- *)
VARIABLES
  keys,                \* inputHandler.keys
  mouseMovement,       \* inputHandler.mouseMovement
  spaceHeld,           \* the space bar is physically down
  pointerLockElement,  \* document.pointerLockElement === canvas
  pointerLocked,       \* the flag isPointerLocked() returns
  phys,                \* state of physics.js, its bodies and the meshes it writes
  camera,              \* camera position and target
  anim,                \* animation state of player.js
  ticks,               \* frames run so far
  frame,               \* what the last frame did
  jumpPasses,          \* frames since the last press of space that passed
                       \* jumpRequested = true
  events,              \* input events delivered so far
  lastEvent            \* the event the last step delivered to the input
                       \* handler's listeners

vars == <<keys, mouseMovement, spaceHeld, pointerLockElement, pointerLocked,
          phys, camera, anim, ticks, frame, jumpPasses, events, lastEvent>>

\* the argument of the input handler's listeners: the event's type and,
\* for a key event, event.key
Event(type, key) == [type |-> type, key |-> key]
NoEvent == Event("none", "")

\* an input event is delivered
Delivered == events < MaxEvents /\ events' = events + 1

\* isPointerLocked()
isPointerLocked == pointerLocked

\* integer square root (Math.sqrt, rounded down), by bisection
RECURSIVE SqrtBetween(_, _, _)
SqrtBetween(n, lo, hi) ==
  IF lo >= hi THEN lo
  ELSE LET mid == (lo + hi + 1) \div 2
       IN IF mid * mid <= n THEN SqrtBetween(n, mid, hi)
          ELSE SqrtBetween(n, lo, mid - 1)

ISqrt(n) == SqrtBetween(n, 0, 2 * DirScale)

\* "Normalize movement direction if needed": only when both components are
\* non-zero, each is divided by the length
Normalize(d) ==
  IF d.x # 0 /\ d.z # 0
    THEN LET length == ISqrt(d.x * d.x + d.z * d.z)
         IN [x |-> Sign(d.x) * ((Abs(d.x) * DirScale) \div length),
             z |-> Sign(d.z) * ((Abs(d.z) * DirScale) \div length)]
    ELSE d

InitPhys ==
  [world |-> FALSE, scene |-> TRUE, physicsObjects |-> <<>>,
   debugMeshes |-> <<>>,
   playerBody |-> [translation |-> Zero3, linvel |-> Zero3, rotation |-> IdentityQuat],
   groundBody |-> [translation |-> Zero3, rotation |-> IdentityQuat],
   groundCollider |-> Zero3, queryPipeline |-> {},
   playerMesh |-> [position |-> Vec3(0, PLAYER_START_Y * PosScale, 0), rotationY |-> 0],
   groundMesh |-> [position |-> Zero3],
   log |-> <<>>, calls |-> 0, steps |-> 0, deltaSum |-> 0,
   call |-> [deltaTime |-> 0, inputDirection |-> ZeroDir, jumpRequested |-> FALSE,
             cameraRotation |-> [x |-> 0, y |-> 0],
             restsOnGround |-> FALSE]]

InitFrame ==
  [locked |-> FALSE, order |-> <<>>, animInput |-> ZeroDir,
   jumpRead |-> FALSE, jumpReset |-> FALSE, keysDown |-> FALSE]

Init ==
  /\ keys = InitKeys
  /\ mouseMovement = [x |-> 0, y |-> 0]
  /\ spaceHeld = FALSE
  /\ pointerLockElement = FALSE
  /\ pointerLocked = FALSE
  /\ phys = InitPhys
  /\ camera = [position |-> Vec3(0, 2 * PosScale, -4 * PosScale), lookAt |-> Zero3]
  /\ anim = [mixer |-> FALSE, currentAction |-> "none"]
  /\ ticks = 0
  /\ frame = InitFrame
  /\ jumpPasses = 0
  /\ events = 0
  /\ lastEvent = NoEvent

\* initPhysics().then(...): the world is created, then the ground and the
\* player colliders; the clock may advance between the two readings that
\* name the ground's debug mesh.  The promise resolves after the module has
\* run to its end, that is after the first tick() call.
InitPhysicsResolved ==
  /\ ~phys.world
  /\ ticks >= 1
  /\ \E late \in {0, 1} :
       phys' = createPlayerCollider(
                 createGroundCollider([phys EXCEPT !.world = TRUE], late), late)
  /\ UNCHANGED <<keys, mouseMovement, spaceHeld, pointerLockElement, pointerLocked,
                 camera, anim, ticks, frame, jumpPasses, events>>
  /\ lastEvent' = NoEvent

\* a keydown event that changes something: a fresh press, or the auto-repeat
\* of a held key
KeyDown ==
  /\ Delivered
  /\ \E key \in RawKeys :
       /\ keys' = onKeyDown(keys, key)
       /\ spaceHeld' = (spaceHeld \/ key = " ")
       /\ jumpPasses' = IF key = " " /\ ~spaceHeld THEN 0 ELSE jumpPasses
       /\ keys' # keys \/ spaceHeld' # spaceHeld
       /\ lastEvent' = Event("keydown", key)
  /\ UNCHANGED <<mouseMovement, pointerLockElement, pointerLocked, phys, camera,
                 anim, ticks, frame>>

\* a keyup event that changes something
KeyUp ==
  /\ Delivered
  /\ \E key \in RawKeys :
       /\ key = " " => spaceHeld
       /\ keys' = onKeyUp(keys, key)
       /\ spaceHeld' = (spaceHeld /\ key # " ")
       /\ keys' # keys \/ spaceHeld' # spaceHeld
       /\ lastEvent' = Event("keyup", key)
  /\ UNCHANGED <<mouseMovement, pointerLockElement, pointerLocked, phys, camera,
                 anim, ticks, frame, jumpPasses>>

\* mouse travel of one event, in pixels
MouseDX == {-785, 0, 785}
MouseDY == {0, 1000}

\* a mousemove event that changes something
MouseMove ==
  /\ Delivered
  /\ \E movementX \in MouseDX, movementY \in MouseDY :
       /\ movementX # 0 \/ movementY # 0
       /\ mouseMovement' = onMouseMove(mouseMovement, pointerLockElement,
                                       movementX, movementY)
       /\ mouseMovement' # mouseMovement
       /\ Abs(mouseMovement'.x) <= MaxTurns * 785 * SENSITIVITY
  /\ lastEvent' = Event("mousemove", "")
  /\ UNCHANGED <<keys, spaceHeld, pointerLockElement, pointerLocked, phys, camera,
                 anim, ticks, frame, jumpPasses>>

\* a click on the canvas while not locked: requestPointerLock() is granted
CanvasClick ==
  /\ Delivered
  /\ ~pointerLocked
  /\ ~pointerLockElement
  /\ pointerLockElement' = TRUE
  /\ lastEvent' = NoEvent
  /\ UNCHANGED <<keys, mouseMovement, spaceHeld, pointerLocked, phys, camera, anim,
                 ticks, frame, jumpPasses>>

\* Escape: the browser releases the pointer lock
ExitPointerLock ==
  /\ Delivered
  /\ pointerLockElement
  /\ pointerLockElement' = FALSE
  /\ lastEvent' = Event("keydown", "Escape")
  /\ UNCHANGED <<keys, mouseMovement, spaceHeld, pointerLocked, phys, camera, anim,
                 ticks, frame, jumpPasses>>

\* the pointerlockchange handler
PointerLockChange ==
  /\ pointerLocked # pointerLockElement
  /\ pointerLocked' = pointerLockElement
  /\ lastEvent' = NoEvent
  /\ UNCHANGED <<keys, mouseMovement, spaceHeld, pointerLockElement, phys, camera,
                 anim, ticks, frame, jumpPasses, events>>

\* the GUI's "Reset Player Position": setPlayerPosition(playerBody, 0, 5, 0)
ResetPlayer ==
  /\ Delivered
  /\ phys.world
  /\ phys.playerBody.translation # Vec3(0, PLAYER_START_Y * PosScale, 0)
  /\ phys' = setPlayerPosition(phys, 0, PLAYER_START_Y * PosScale, 0)
  /\ lastEvent' = NoEvent
  /\ UNCHANGED <<keys, mouseMovement, spaceHeld, pointerLockElement, pointerLocked,
                 camera, anim, ticks, frame, jumpPasses>>

\* the GUI's "elevation" slider of the ground mesh
GroundElevation ==
  /\ Delivered
  /\ \E e \in GroundElevations :
       /\ phys.groundMesh.position.y # e * PosScale
       /\ phys' = [phys EXCEPT !.groundMesh.position.y = e * PosScale]
  /\ lastEvent' = NoEvent
  /\ UNCHANGED <<keys, mouseMovement, spaceHeld, pointerLockElement, pointerLocked,
                 camera, anim, ticks, frame, jumpPasses>>

\* the frame's calls after updatePhysics, with what they were given
FrameOf(locked, animInput, jumpRead, jumpReset, physicsCalled, keysDown) ==
  [locked |-> locked,
   order |-> (IF physicsCalled THEN <<"updatePhysics">> ELSE <<>>)
             \o (IF jumpReset THEN <<"resetJump">> ELSE <<>>)
             \o <<"updateThirdPersonCamera", "updatePlayerAnimations",
                  "controls.update", "render", "requestAnimationFrame">>,
   animInput |-> animInput, jumpRead |-> jumpRead, jumpReset |-> jumpReset,
   keysDown |-> keysDown]

\* some movement key and the jump key are flagged
KeysDown(ks) == getMovementDirection(ks) # ZeroDir /\ ks.jump

\* variant: the camera is placed before the physics update, from the mesh
\* as the previous frame left it
tickLocked_CameraFirst(P, ks, mm, an, deltaTime) ==
  LET movementDirection == Normalize(getMovementDirection(ks))
      jumpPressed == isJumpPressed(ks)
      playerRotation == getPlayerRotation(mm)
      stepped == updatePhysics(P, deltaTime, movementDirection, jumpPressed,
                               playerRotation)
  IN [phys |-> stepped,
      keys |-> IF jumpPressed THEN resetJump(ks) ELSE ks,
      camera |-> updateThirdPersonCamera(P.playerMesh, playerRotation),
      anim |-> updatePlayerAnimations(an, deltaTime, movementDirection),
      frame |-> [FrameOf(TRUE, movementDirection, TRUE, jumpPressed,
                         FALSE, KeysDown(ks))
                   EXCEPT !.order = <<"updateThirdPersonCamera", "updatePhysics">>
                                    \o (IF jumpPressed THEN <<"resetJump">> ELSE <<>>)
                                    \o <<"updatePlayerAnimations", "controls.update",
                                         "render", "requestAnimationFrame">>]]

\* tick, "if (isPointerLocked())": the keys and the mouse drive the frame
tickLocked(P, ks, mm, an, deltaTime) ==
  LET movementDirection == Normalize(getMovementDirection(ks))
      jumpPressed == isJumpPressed(ks)
      playerRotation == getPlayerRotation(mm)
      stepped == updatePhysics(P, deltaTime, movementDirection, jumpPressed,
                               playerRotation)
  IN [phys |-> stepped,
      keys |-> IF jumpPressed THEN resetJump(ks) ELSE ks,
      camera |-> updateThirdPersonCamera(stepped.playerMesh, playerRotation),
      anim |-> updatePlayerAnimations(an, deltaTime, movementDirection),
      frame |-> FrameOf(TRUE, movementDirection, TRUE, jumpPressed,
                        TRUE, KeysDown(ks))]

\* variant: outside game mode the physics update is skipped
tickUnlocked_NoPhysics(P, ks, mm, an, deltaTime) ==
  LET playerRotation == getPlayerRotation(mm)
  IN [phys |-> P,
      keys |-> ks,
      camera |-> updateThirdPersonCamera(P.playerMesh, playerRotation),
      anim |-> updatePlayerAnimations(an, deltaTime, ZeroDir),
      frame |-> FrameOf(FALSE, ZeroDir, FALSE, FALSE, FALSE, KeysDown(ks))]

\* variant: the keys drive the frame outside game mode too
tickUnlocked_ReadsKeys(P, ks, mm, an, deltaTime) ==
  tickLocked(P, ks, mm, an, deltaTime)

\* tick, "else": zero movement, no jump, the rotation still applies
tickUnlocked(P, ks, mm, an, deltaTime) ==
  LET playerRotation == getPlayerRotation(mm)
      stepped == updatePhysics(P, deltaTime, ZeroDir, FALSE, playerRotation)
  IN [phys |-> stepped,
      keys |-> ks,
      camera |-> updateThirdPersonCamera(stepped.playerMesh, playerRotation),
      anim |-> updatePlayerAnimations(an, deltaTime, ZeroDir),
      frame |-> FrameOf(FALSE, ZeroDir, FALSE, FALSE, TRUE, KeysDown(ks))]

\* tick: one frame of the animation loop.  The clock starts with the first
\* frame, whose deltaTime is 0.
tick ==
  /\ ticks < MaxTicks
  /\ \E deltaTime \in IF ticks = 0 THEN {0} ELSE FrameTimes :
       /\ LET done == IF isPointerLocked
                        THEN tickLocked(phys, keys, mouseMovement, anim, deltaTime)
                        ELSE tickUnlocked(phys, keys, mouseMovement, anim, deltaTime)
          IN /\ phys' = done.phys
             /\ keys' = done.keys
             /\ camera' = done.camera
             /\ anim' = done.anim
             /\ frame' = done.frame
             /\ jumpPasses' = jumpPasses
                                + (IF done.phys.call.jumpRequested THEN 1 ELSE 0)
  /\ ticks' = ticks + 1
  /\ lastEvent' = NoEvent
  /\ UNCHANGED <<mouseMovement, spaceHeld, pointerLockElement, pointerLocked, events>>

Next ==
  \/ InitPhysicsResolved
  \/ KeyDown
  \/ KeyUp
  \/ MouseMove
  \/ CanvasClick
  \/ ExitPointerLock
  \/ PointerLockChange
  \/ ResetPlayer
  \/ GroundElevation
  \/ tick

Spec == Init /\ [][Next]_vars

\* window.requestAnimationFrame(tick): a frame is due once the module's
\* own first call or the previous frame has scheduled it.  tick has no other
\* guard, and it is the one step that raises the frame count.
FrameDue == ticks < MaxTicks /\ ticks' = ticks + 1

\* the browser runs every frame that is due
LiveSpec == Spec /\ WF_ticks(FrameDue)

(* ----------------------- the input handler alone ---------------------- *)
\* The listeners of input.js under every key they distinguish and mouse
\* travel in both vertical directions, with the pointer lock that guards
\* the mouse; no frame runs.
InputKeys == {"w", "W", "a", "A", "s", "S", "d", "D", " ", "e"}
InputMouseDY == {-1000, 0, 1000}

\* the keydown listener, any key, first press or auto-repeat
KeyDownEvent ==
  /\ \E key \in InputKeys :
       /\ keys' = onKeyDown(keys, key)
       /\ spaceHeld' = (spaceHeld \/ key = " ")
       /\ jumpPasses' = IF key = " " /\ ~spaceHeld THEN 0 ELSE jumpPasses
       /\ lastEvent' = Event("keydown", key)
  /\ UNCHANGED <<mouseMovement, pointerLockElement, pointerLocked, phys, camera,
                 anim, ticks, frame, events>>

\* the keyup listener, any key
KeyUpEvent ==
  /\ \E key \in InputKeys :
       /\ keys' = onKeyUp(keys, key)
       /\ spaceHeld' = (spaceHeld /\ key # " ")
       /\ lastEvent' = Event("keyup", key)
  /\ UNCHANGED <<mouseMovement, pointerLockElement, pointerLocked, phys, camera,
                 anim, ticks, frame, jumpPasses, events>>

\* the mousemove listener, with or without the pointer lock
MouseMoveEvent ==
  /\ \E movementX \in MouseDX, movementY \in InputMouseDY :
       /\ movementX # 0 \/ movementY # 0
       /\ mouseMovement' = onMouseMove(mouseMovement, pointerLockElement,
                                       movementX, movementY)
       /\ Abs(mouseMovement'.x) <= MaxTurns * 785 * SENSITIVITY
  /\ lastEvent' = Event("mousemove", "")
  /\ UNCHANGED <<keys, spaceHeld, pointerLockElement, pointerLocked, phys, camera,
                 anim, ticks, frame, jumpPasses, events>>

InputNext ==
  \/ KeyDownEvent
  \/ KeyUpEvent
  \/ MouseMoveEvent
  \/ CanvasClick
  \/ ExitPointerLock
  \/ PointerLockChange

InputSpec == Init /\ [][InputNext]_vars

(* ------------------------------ claims -------------------------------- *)
Log == phys.log
OpsAt(op) == {i \in DOMAIN Log : Log[i].op = op}
\* the last updatePhysics call ran with a world (every such call logs its step)
CallStepped == Log # <<>>

\* C1: in an updatePhysics call with a world and a player, movePlayer and
\* playerJump come before the one world.step(), the step moves the body by
\* the velocity movePlayer has set, and the mesh read-back comes after the
\* step and takes the translation the step produced.
C1_InputBeforeStepBeforeReadBack ==
  (CallStepped /\ getPlayerPhysics(phys) # 0) =>
    /\ Cardinality(OpsAt("step")) = 1
    /\ Cardinality(OpsAt("movePlayer")) = 1
    /\ Cardinality(OpsAt("syncMesh")) = 1
    /\ \A s \in OpsAt("step") :
         /\ \A m \in OpsAt("movePlayer") :
              /\ m < s
              /\ Log[s].translation.x = Log[m].translation.x + Log[m].linvel.x * TIMESTEP
              /\ Log[s].translation.z = Log[m].translation.z + Log[m].linvel.z * TIMESTEP
         /\ \A j \in OpsAt("playerJump") : j < s
         /\ \A r \in OpsAt("syncMesh") :
              r > s /\ Log[r].translation = Log[s].translation
         /\ phys.playerMesh.position = Log[s].translation

\* C1 witness: a call that moved the player, applied a jump and stepped
C1_Witness ==
  /\ CallStepped
  /\ OpsAt("playerJump") # {}
  /\ \E m \in OpsAt("movePlayer") : Log[m].linvel.x # 0 \/ Log[m].linvel.z # 0

\* C2: the direction movePlayer receives is the call's input direction
\* rotated by the call's camera yaw; a zero input direction arrives as zero
\* and gives zero horizontal velocity whatever the yaw.
C2_MoveDirectionIsRotatedInput ==
  \A m \in OpsAt("movePlayer") :
    LET d == phys.call.inputDirection
        a == phys.call.cameraRotation.y
    IN IF d.x = 0 /\ d.z = 0
         THEN Log[m].dir = ZeroDir /\ Log[m].linvel.x = 0 /\ Log[m].linvel.z = 0
         ELSE /\ Log[m].dir.x = d.x * Cos(a) - d.z * Sin(a)
              /\ Log[m].dir.z = d.x * Sin(a) + d.z * Cos(a)

\* C2 witness: a non-zero direction moved under a turned camera
C2_Witness ==
  /\ phys.call.inputDirection # ZeroDir
  /\ phys.call.cameraRotation.y # 0
  /\ \E m \in OpsAt("movePlayer") : Log[m].dir # phys.call.inputDirection

\* C3: after an updatePhysics call with a world, every debug mesh is at the
\* position and rotation its object's rigid body had after the call's step,
\* and no debug mesh is updated before the step.
C3_DebugMeshesFollowBodies ==
  CallStepped =>
    \A s \in OpsAt("step") :
      /\ \A u \in OpsAt("updateDebugMesh") : u > s
      /\ \A k \in DOMAIN phys.debugMeshes :
           /\ phys.debugMeshes[k].position =
                (IF k.kind = "player" THEN Log[s].translation
                                      ELSE phys.groundBody.translation)
           /\ phys.debugMeshes[k].quaternion =
                (IF k.kind = "player" THEN phys.playerBody.rotation
                                      ELSE phys.groundBody.rotation)

\* C3 witness: the player's and the ground's debug meshes were both updated
C3_Witness ==
  /\ \E u \in OpsAt("updateDebugMesh") : Log[u].who = "player"
  /\ \E u \in OpsAt("updateDebugMesh") : Log[u].who = "ground"
  /\ \E k \in DOMAIN phys.debugMeshes : phys.debugMeshes[k].position # Zero3

\* C4: a tick calls updatePhysics exactly once, locked or not, and steps
\* the world once if it exists and not at all if it does not; nothing else
\* calls updatePhysics or steps the world.
C4_OnePhysicsUpdatePerTick ==
  [][IF ticks' = ticks + 1
       THEN /\ phys'.calls = phys.calls + 1
            /\ phys'.steps = phys.steps + (IF phys.world THEN 1 ELSE 0)
       ELSE phys'.calls = phys.calls /\ phys'.steps = phys.steps]_vars

\* C4 witness: a frame before the world existed and a locked frame after
C4_Witness == phys.calls = 2 /\ phys.steps = 1 /\ frame.locked

\* C5: at the end of an updatePhysics call with a world the player mesh is
\* at the translation of the player body, and the call leaves the ground
\* mesh where it was.
C5_PlayerMeshAtBodyGroundUntouched ==
  [][ticks' # ticks =>
       /\ phys'.log # <<>> => phys'.playerMesh.position = phys'.playerBody.translation
       /\ phys'.groundMesh = phys.groundMesh]_vars

\* C5 witness: a stepped call moved the player mesh while the ground mesh
\* is away from its body
C5_Witness ==
  /\ CallStepped
  /\ phys.playerMesh.position = phys.playerBody.translation
  /\ phys.playerMesh.position # Vec3(0, PLAYER_START_Y * PosScale, 0)
  /\ phys.groundMesh.position # phys.groundBody.translation

\* C6: a jump impulse is applied in a call exactly when a jump is requested
\* and the player's capsule rests on the ground.
C6_JumpOnlyOnGround ==
  CallStepped =>
    ((OpsAt("playerJump") # {}) <=> (phys.call.jumpRequested /\ phys.call.restsOnGround))

\* C7: while space is held, at most one frame since its press has passed
\* jumpRequested = true.
C7_OneJumpPerPress == spaceHeld => jumpPasses <= 1

\* C8: a frame run while the pointer is not locked gives updatePhysics a
\* zero direction and no jump, gives updatePlayerAnimations zero movement,
\* and neither reads nor resets the jump flag (the keys stay as they were).
C8_NoInputWhenUnlocked ==
  [][(ticks' # ticks /\ ~pointerLocked) =>
       /\ phys'.calls = phys.calls + 1
       /\ phys'.call.inputDirection = ZeroDir
       /\ ~phys'.call.jumpRequested
       /\ frame'.animInput = ZeroDir
       /\ ~frame'.jumpRead
       /\ ~frame'.jumpReset
       /\ keys' = keys]_vars

\* C8 witness: an unlocked frame ran with a movement key and space flagged
C8_Witness == ticks > 0 /\ ~frame.locked /\ frame.keysDown /\ CallStepped

\* C9: movePlayer leaves the horizontal velocity at direction * MOVE_SPEED
\* and the vertical velocity at its value before the call; a zero direction
\* leaves no horizontal velocity.
C9_MovePlayerVelocity ==
  [][ticks' # ticks =>
       \A m \in {i \in DOMAIN phys'.log : phys'.log[i].op = "movePlayer"} :
         LET e == phys'.log[m] IN
         /\ e.linvel.x = e.dir.x * MOVE_SPEED
         /\ e.linvel.z = e.dir.z * MOVE_SPEED
         /\ e.linvel.y = phys.playerBody.linvel.y
         /\ (e.dir = ZeroDir => e.linvel.x = 0 /\ e.linvel.z = 0)]_vars

\* C9 witness: a falling player was moved in a non-zero direction
C9_Witness ==
  \E m \in OpsAt("movePlayer") :
    Log[m].dir # ZeroDir /\ Log[m].linvel.y < 0 /\ Log[m].linvel.x # 0

\* C10: a stepped call moves the player by direction * MOVE_SPEED *
\* deltaTime, and the simulated time is the sum of the deltaTime values.
C10_AdvancesByDeltaTime ==
  CallStepped =>
    /\ phys.steps * TIMESTEP = phys.deltaSum
    /\ \A s \in OpsAt("step") : \A m \in OpsAt("movePlayer") :
         /\ Log[s].translation.x - Log[m].translation.x
              = Log[m].dir.x * MOVE_SPEED * phys.call.deltaTime
         /\ Log[s].translation.z - Log[m].translation.z
              = Log[m].dir.z * MOVE_SPEED * phys.call.deltaTime

\* C11: after an updatePhysics call made with a world and a player object
\* the player mesh's rotation.y is the cameraRotation.y the call was given,
\* with or without movement input, locked or not; a call made without them
\* (and every step that is not a frame) leaves the mesh's rotation as it was.
C11_PlayerFacesCamera ==
  [][IF ticks' # ticks /\ phys.world /\ getPlayerPhysics(phys) # 0
       THEN /\ phys'.playerMesh.rotationY = phys'.call.cameraRotation.y
            /\ phys'.call.cameraRotation = getPlayerRotation(mouseMovement)
       ELSE phys'.playerMesh.rotationY = phys.playerMesh.rotationY]_vars

\* C11 witness: an unlocked frame without movement input turned the mesh
\* to a camera yaw that is not the initial one
C11_Witness ==
  /\ CallStepped
  /\ ~frame.locked
  /\ phys.call.inputDirection = ZeroDir
  /\ phys.call.cameraRotation.y # 0
  /\ phys.playerMesh.rotationY = phys.call.cameraRotation.y

\* C12: after any sequence of mousemove events mouseMovement.y lies in
\* [-PI/2 + 0.1, PI/2 - 0.1], so the pitch getPlayerRotation().x stays
\* strictly inside (-PI/2, PI/2).  (That mouseMovement.x is not limited is
\* what the witness shows.)
C12_PitchClamped ==
  /\ mouseMovement.y >= -PI_HALF + LOOK_MARGIN
  /\ mouseMovement.y <= PI_HALF - LOOK_MARGIN
  /\ getPlayerRotation(mouseMovement).x > -PI_HALF
  /\ getPlayerRotation(mouseMovement).x < PI_HALF

\* C12 witness: mouse travel stopped at the lower limit of the vertical
\* value while the horizontal value went beyond that limit
C12_Witness ==
  /\ lastEvent.type = "mousemove"
  /\ mouseMovement.y = -PI_HALF + LOOK_MARGIN
  /\ Abs(mouseMovement.x) > PI_HALF - LOOK_MARGIN

\* C13: a mousemove event delivered while document.pointerLockElement is
\* unset leaves mouseMovement, and so getPlayerRotation(), as they were.
C13_MouseOnlyWhenLocked ==
  [][(lastEvent'.type = "mousemove" /\ ~pointerLockElement) =>
       /\ mouseMovement' = mouseMovement
       /\ getPlayerRotation(mouseMovement') = getPlayerRotation(mouseMovement)]_vars

\* C13 witness: a mousemove arrived without the lock after the mouse had
\* turned the view under the lock
C13_Witness ==
  /\ lastEvent.type = "mousemove"
  /\ ~pointerLockElement
  /\ mouseMovement.x # 0
  /\ mouseMovement.y # 0

\* C14: for every combination of the four movement flags
\* getMovementDirection returns x = right - left and z = backward - forward,
\* each in {-1, 0, 1}, and opposite keys held together give 0.
C14_MovementDirection ==
  LET d == getMovementDirection(keys)
      One(b) == IF b THEN DirScale ELSE 0
  IN /\ d.x = One(keys.right) - One(keys.left)
     /\ d.z = One(keys.backward) - One(keys.forward)
     /\ d.x \in {-DirScale, 0, DirScale}
     /\ d.z \in {-DirScale, 0, DirScale}
     /\ (keys.left /\ keys.right) => d.x = 0
     /\ (keys.forward /\ keys.backward) => d.z = 0
     /\ DOMAIN d = {"x", "z"}

\* C14 witness: forward and backward are held together with left alone
C14_Witness ==
  /\ keys.forward /\ keys.backward /\ keys.left /\ ~keys.right
  /\ getMovementDirection(keys) = [x |-> -DirScale, z |-> 0]

\* the movement flag a key stands for, upper or lower case
FlagOfKey(key) ==
  CASE key \in {"w", "W"} -> "forward"
    [] key \in {"a", "A"} -> "left"
    [] key \in {"s", "S"} -> "backward"
    [] key \in {"d", "D"} -> "right"
    [] OTHER -> "none"

MoveFlags == {"forward", "left", "backward", "right"}

\* C15: all movement flags start false; a keydown or keyup for w, a, s or d
\* in either case leaves that key's flag true for a keydown and false for a
\* keyup and every other movement flag as it was; an event for any other
\* key, and every other step, changes no movement flag.  So each flag is
\* true exactly when the last event for its key was a keydown.
C15_FlagsFollowLastKeyEvent ==
  /\ \A f \in MoveFlags : ~keys[f]
  /\ [][\A f \in MoveFlags :
          keys'[f] = IF lastEvent'.type \in {"keydown", "keyup"}
                          /\ FlagOfKey(lastEvent'.key) = f
                       THEN lastEvent'.type = "keydown"
                       ELSE keys[f]]_vars

\* C15 witness: an upper-case keyup released forward while backward, set by
\* a lower-case keydown, stayed
C15_Witness ==
  /\ lastEvent = Event("keyup", "W")
  /\ ~keys.forward
  /\ keys.backward

\* the calls of the last frame named `name`, by position
FrameCalls(order, name) == {i \in DOMAIN order : order[i] = name}

\* C16: a frame calls updatePhysics, updateThirdPersonCamera,
\* updatePlayerAnimations, render and requestAnimationFrame once each and in
\* this order; the camera it leaves is the one updateThirdPersonCamera
\* computes from the player mesh as this frame's updatePhysics left it; and
\* every frame is followed by a next one: the frame count, which only a
\* frame raises and only by one, reaches every number that is explored.
C16_FrameOrderAndLoop ==
  /\ [][ticks' # ticks =>
          LET o == frame'.order
              Names == <<"updatePhysics", "updateThirdPersonCamera",
                         "updatePlayerAnimations", "render", "requestAnimationFrame">>
          IN /\ ticks' = ticks + 1
             /\ phys'.calls = phys.calls + 1
             /\ \A n \in DOMAIN Names : Cardinality(FrameCalls(o, Names[n])) = 1
             /\ \A n \in 1..(Len(Names) - 1) :
                  \A i \in FrameCalls(o, Names[n]), j \in FrameCalls(o, Names[n + 1]) :
                    i < j
             /\ o[Len(o)] = "requestAnimationFrame"
             /\ camera' = updateThirdPersonCamera(phys'.playerMesh,
                                                  phys'.call.cameraRotation)]_vars
  /\ <>(ticks = MaxTicks)

\* C16 witness: a locked frame whose physics update moved and turned the
\* player mesh, with the camera behind the mesh where that update left it
C16_Witness ==
  /\ CallStepped
  /\ frame.locked
  /\ phys.call.inputDirection # ZeroDir
  /\ phys.playerMesh.rotationY # 0
  /\ phys.playerMesh.position.x # 0
  /\ camera = updateThirdPersonCamera(phys.playerMesh, phys.call.cameraRotation)

====
